---- MODULE Spec2Model ----
(***************************************************************************)
(* check-payload: the node scan (runNodeScan, src/types_config.go) and the *)
(* command driver (main, src/unnamed/part_000).                            *)
(*                                                                         *)
(* Strings are sequences of tokens: a path "/bin/a" is <<"/","bin","/",    *)
(* "a">>, an RPM name "rpm1" is <<"rpm1">>, the empty string is <<>>.      *)
(***************************************************************************)
EXTENDS Integers, Sequences, FiniteSets, TLC

\* ------------------------------------------------------------------ bounds
MaxRpms == 2
MaxFiles == 2
MaxRuns == 2
MaxItems == 1

\* ----------------------------------------------------------- string model
SEP == "/"

P_bin_a == <<SEP, "bin", SEP, "a">>
P_bin_b == <<SEP, "bin", SEP, "b">>
P_mod_m == <<SEP, "lib", SEP, "modules", SEP, "m">>

\* the paths an rpm -ql listing may contain, in the order it prints them
PathOrder == <<P_bin_a, P_bin_b, P_mod_m>>

ListedPaths == {PathOrder[i] : i \in DOMAIN PathOrder}

\* the names rpm -qa may print, in the order it prints them
RpmNames == <<<<"rpm1">>, <<"rpm2">>, <<"rpm3">>, <<"rpm4">>>>

\* the node root (--root) and the configured filter list (cfg.Filter before
\* the node scan): the host root with an entry that names a listed file, and
\* a mounted root with an entry that names a directory under the mount
NodeConfigs ==
    {[root |-> <<SEP>>, filter |-> <<P_bin_b>>],
     [root |-> <<SEP, "r">>, filter |-> <<<<SEP, "r", SEP, "bin">>>>]}

NoPath == <<>>

IsPrefix(s, t) == Len(s) <= Len(t) /\ SubSeq(t, 1, Len(s)) = s

\* filepath.Clean on the paths used here (no "." or ".." elements): of a run
\* of separators the last one stays, and a trailing separator is dropped
\* unless the path is the root
Clean(s) ==
    LET n == Len(s)
        allSep == \A i \in 1..n : s[i] = SEP
        Keep(i) == \/ s[i] # SEP
                   \/ i < n /\ s[i + 1] # SEP
                   \/ i = n /\ allSep
        idx == SelectSeq([i \in 1..n |-> i], Keep)
    IN [k \in 1..Len(idx) |-> s[idx[k]]]

\* filepath.Join(a, b): empty elements are ignored, the rest is joined with
\* separators and cleaned
Join(a, b) ==
    IF a = <<>> THEN Clean(b)
    ELSE IF b = <<>> THEN Clean(a)
    ELSE Clean(a \o <<SEP>> \o b)

\* --------------------------------------------------------- the file system
\* What the scan observes of one listed path: the first of lstat, stat, MIME
\* detection and scanBinary that ends the handling of the file.
Kinds == {"lstat_err", "symlink", "dangling", "stat_err", "dir",
          "mime_err", "ignored_mime", "binary_ok", "binary_fail"}

\* os.Lstat does not follow a link
Lstat(kind) ==
    IF kind = "lstat_err" THEN "err"
    ELSE IF kind \in {"symlink", "dangling"} THEN "symlink"
    ELSE "other"

\* os.Stat follows a link: a dangling link is an error
Stat(kind) ==
    IF kind \in {"stat_err", "dangling"} THEN "err"
    ELSE IF kind = "dir" THEN "dir"
    ELSE "file"

DetectFile(kind) ==
    IF kind = "mime_err" THEN "err"
    ELSE IF kind = "ignored_mime" THEN "ignored"
    ELSE "elf"

\* variant: the list of ignored MIME types is never matched
EqualsAnyIgnored_Never(mtype) == FALSE

EqualsAnyIgnored(mtype) == mtype = "ignored"

NewTag(name) == [name |-> name]

NewScanResult(tag, path, err) == [tag |-> tag, path |-> path, err |-> err]

scanBinary(tag, path, kind) ==
    NewScanResult(tag, path, IF kind = "binary_fail" THEN "scan" ELSE "none")

\* variant: the link test follows the link (os.Stat in place of os.Lstat)
isSymlink_Follow(kind) ==
    [symlink |-> FALSE, err |-> Stat(kind) = "err"]

isSymlink(kind) ==
    [symlink |-> Lstat(kind) = "symlink", err |-> Lstat(kind) = "err"]

\* a path is filtered when an entry of the filter list is a prefix of it
isPathFiltered(filter, path) ==
    \E i \in DOMAIN filter : IsPrefix(filter[i], path)

BuiltinNodeFilter ==
    << <<SEP, "lib", SEP, "modules">>,
       <<SEP, "usr", SEP, "lib", SEP, "firmware">>,
       <<SEP, "usr", SEP, "lib", SEP, "grub">>,
       <<SEP, "usr", SEP, "lib", SEP, ".build-id">> >>

\* variant: the built-in node entries are not appended
AppendNodeFilter_NoBuiltin(filter) == filter

AppendNodeFilter(filter) == filter \o BuiltinNodeFilter

\* variant: no continue after the result of a failed lstat is appended
ProcessFile_FallThrough(tag, path, kind, root, filter) ==
    IF isPathFiltered(filter, path)
    THEN [tag |-> tag, out |-> <<>>, scans |-> 0]
    ELSE LET sl == isSymlink(kind)
             pre == IF sl.err THEN <<NewScanResult(tag, path, "lstat")>> ELSE <<>>
         IN
      IF sl.symlink
      THEN [tag |-> tag, out |-> pre, scans |-> 0]
      ELSE LET rooted == Join(root, path)
               ntag == NewTag(rooted)
           IN
        IF Stat(kind) = "err"
        THEN [tag |-> ntag, out |-> pre, scans |-> 0]
        ELSE IF Stat(kind) = "dir"
        THEN [tag |-> ntag, out |-> pre, scans |-> 0]
        ELSE IF DetectFile(kind) = "err"
        THEN [tag |-> ntag, out |-> pre \o <<NewScanResult(ntag, rooted, "mime")>>, scans |-> 0]
        ELSE IF EqualsAnyIgnored(DetectFile(kind))
        THEN [tag |-> ntag, out |-> pre, scans |-> 0]
        ELSE [tag |-> ntag, out |-> pre \o <<scanBinary(ntag, rooted, kind)>>, scans |-> 1]

\* The body of the loop over the files of one RPM, for one listed path:
\* the tag variable after the iteration, the results appended, and the
\* number of calls of scanBinary.
ProcessFile(tag, path, kind, root, filter) ==
    IF isPathFiltered(filter, path)
    THEN [tag |-> tag, out |-> <<>>, scans |-> 0]
    ELSE LET sl == isSymlink(kind) IN
      IF sl.err
      THEN [tag |-> tag, out |-> <<NewScanResult(tag, path, "lstat")>>, scans |-> 0]
      ELSE IF sl.symlink
      THEN [tag |-> tag, out |-> <<>>, scans |-> 0]
      ELSE LET rooted == Join(root, path)
               ntag == NewTag(rooted)
           IN
        IF Stat(kind) = "err"
        THEN [tag |-> ntag, out |-> <<>>, scans |-> 0]
        ELSE IF Stat(kind) = "dir"
        THEN [tag |-> ntag, out |-> <<>>, scans |-> 0]
        ELSE IF DetectFile(kind) = "err"
        THEN [tag |-> ntag, out |-> <<NewScanResult(ntag, rooted, "mime")>>, scans |-> 0]
        ELSE IF EqualsAnyIgnored(DetectFile(kind))
        THEN [tag |-> ntag, out |-> <<>>, scans |-> 0]
        ELSE [tag |-> ntag, out |-> <<scanBinary(ntag, rooted, kind)>>, scans |-> 1]

\* variant: the command is built without the context (exec.Command)
getFilesFromRPM_NoContext(done, exitOK, listing) ==
    IF ~exitOK THEN [err |-> TRUE, files |-> <<>>, started |-> 1]
    ELSE [err |-> FALSE, files |-> listing, started |-> 1]

\* exec.CommandContext(ctx, "rpm", "-ql", ...).Run(): with a done context the
\* process is not started and Run returns the context's error
getFilesFromRPM(done, exitOK, listing) ==
    IF done THEN [err |-> TRUE, files |-> <<>>, started |-> 0]
    ELSE IF ~exitOK THEN [err |-> TRUE, files |-> <<>>, started |-> 1]
    ELSE [err |-> FALSE, files |-> listing, started |-> 1]

\* exec.CommandContext(ctx, "rpm", "-qa", ...).Run(); runNodeScan drops the error
getAllRPMs(done, exitOK, n) ==
    IF done \/ ~exitOK THEN <<>> ELSE SubSeq(RpmNames, 1, n)

\* variant: the error result of a failed query is not tagged
RpmErrResult_NoTag(tag) == NewScanResult(NewTag(<<>>), NoPath, "rpm_ql")

RpmErrResult(tag) == NewScanResult(tag, NoPath, "rpm_ql")

\* the outputs of rpm -ql: up to MaxFiles lines, a path may be listed again
FileLists ==
    UNION {{[i \in 1..n |-> PathOrder[f[i]]] :
              f \in {g \in [1..n -> DOMAIN PathOrder] :
                        \A i \in 1..n : i < n => g[i] <= g[i + 1]}} :
           n \in 0..MaxFiles}

\* ------------------------------------------------------------------- state
VARIABLES
    npc,         \* position in runNodeScan: "idle", "start", "rpm", "files", "done"
    NodeScan,    \* cfg.NodeScan, the node root
    Filter,      \* cfg.Filter
    cfgFilter,   \* cfg.Filter as configured, before runNodeScan
    ctxDone,     \* the scan context is done
    rpms,        \* the output of rpm -qa
    ri,          \* index of the RPM of the outer loop
    tag,         \* the variable tag of the outer loop body
    files,       \* the output of rpm -ql for rpms[ri]
    fi,          \* index of the file of the inner loop
    results,     \* results.Items
    fs,          \* the part of the file system observed so far
    dispatched,  \* history: the listed paths that passed the filter, in order
    queried,     \* history: the RPMs getFilesFromRPM was called for
    rpmStarted,  \* history: rpm -ql processes started
    scanCalls,   \* history: calls of scanBinary
    failed,      \* history: the RPMs whose rpm -ql query returned an error
    lateQueries  \* history: calls of getFilesFromRPM made after the context was done

nodeVars == <<npc, NodeScan, Filter, cfgFilter, ctxDone, rpms, ri, tag, files, fi,
              results, fs, dispatched, queried, rpmStarted, scanCalls, failed, lateQueries>>

VARIABLES
    pc,             \* position in main: "idle", "execute", "prerun", "validate", "run",
                    \* "postrun", "returned", "exited"
    cmd,            \* the subcommand on the command line
    failOnWarnings, \* --fail-on-warnings
    urlFlag,        \* --url: whether it was given, and its value
    fileFlag,       \* --file
    reqGiven,       \* the required flag of the subcommand (--root, --spec) was given
    topdir,         \* --topdir
    innerpath,      \* --innerpath
    config,         \* the fields of config the driver sets
    scanResults,    \* var results []*types.ScanResults of main
    err,            \* the error rootCmd.Execute returns
    printed,        \* the result sets handed to scan.PrintResults, in order
    scanStarts,     \* the sources RunPayloadScan was called with, in order
    runCompleted,   \* the RunE of a scan subcommand returned nil
    binRes,         \* what validations.ScanBinary returned
    binIgnored,     \* what config.IgnoreFileByRpm answers for the file
    exitCode        \* the exit status of the process, -1 while it runs

mainVars == <<pc, cmd, failOnWarnings, urlFlag, fileFlag, reqGiven, topdir, innerpath,
              config, scanResults, err, printed, scanStarts, runCompleted, binRes,
              binIgnored, exitCode>>

vars == <<nodeVars, mainVars>>

\* ------------------------------------------------------- the command driver
Cmds == {"version", "payload", "node", "image", "java-image", "binary"}

ScanCmds == Cmds \ {"version"}

\* klog.Fatalf ends the process with status 255
FatalExit == 255

\* the Go runtime ends the process with status 2 on an unrecovered panic
PanicExit == 2

EmptyStr == <<>>

Statuses == {"success", "warning", "failure", "skipped"}

Item(s, rpm) == [status |-> s, rpm |-> rpm]

\* what a scan (RunPayloadScan, RunOperatorScan, RunNodeScan) may return
ItemSeqs == UNION {[1..n -> {Item(s, EmptyStr) : s \in Statuses}] : n \in 0..MaxItems}

RunSets == UNION {[1..n -> ItemSeqs] : n \in 0..MaxRuns}

\* what validations.ScanBinary may return
BinaryResults == {Item(s, rpm) : s \in Statuses, rpm \in {EmptyStr, <<"rpm1">>}}

NoRes == Item("none", EmptyStr)

NoFlag == [set |-> FALSE, val |-> EmptyStr]

\* a string flag on the command line: absent, given empty, given with a value
FlagValues(v) == {NoFlag, [set |-> TRUE, val |-> EmptyStr], [set |-> TRUE, val |-> v]}

IsFailed(rs) ==
    \E i \in DOMAIN rs : \E j \in DOMAIN rs[i] : rs[i][j].status = "failure"

IsWarnings(rs) ==
    \E i \in DOMAIN rs : \E j \in DOMAIN rs[i] : rs[i][j].status = "warning"

\* variant: a warning fails the run whatever --fail-on-warnings says
PersistentPostRunE_AnyWarning(rs, fow) ==
    [printed |-> <<rs>>,
     err |-> IF IsFailed(rs) THEN "run failed"
             ELSE IF IsWarnings(rs) \/ fow THEN "run failed with warnings"
             ELSE "none"]

\* scanCmd.PersistentPostRunE: the report, then the error it returns
PersistentPostRunE(rs, fow) ==
    [printed |-> <<rs>>,
     err |-> IF IsFailed(rs) THEN "run failed"
             ELSE IF IsWarnings(rs) /\ fow THEN "run failed with warnings"
             ELSE "none"]

\* main after rootCmd.Execute returned e
ExitStatus(e) == IF e # "none" THEN FatalExit ELSE 0

\* variant: the flags are not marked mutually exclusive
FlagGroupsError_None(c, url, file) == "none"

\* cobra's check of MarkFlagsMutuallyExclusive("url", "file")
FlagGroupsError(c, url, file) ==
    IF c = "payload" /\ url.set /\ file.set THEN "mutually exclusive" ELSE "none"

\* cobra's check of MarkFlagRequired("root") and MarkFlagRequired("spec")
RequiredFlagsError(c, given) ==
    IF c \in {"node", "image", "java-image"} /\ ~given THEN "required flag" ELSE "none"

\* scanPayload.RunE up to the call of scan.RunPayloadScan
PayloadSourceError(fromURL, fromFile) ==
    IF fromURL = EmptyStr /\ fromFile = EmptyStr THEN "option required" ELSE "none"

\* gosyms.RunE after validations.ScanBinary returned res; rs is the variable
\* results of main
BinaryRunE(rs, res, ignoredByRpm) ==
    IF res.status = "skipped"
    THEN [panic |-> FALSE, results |-> rs]
    ELSE IF res.status # "success" /\ res.rpm # EmptyStr /\ ignoredByRpm
    THEN [panic |-> FALSE, results |-> rs]
    ELSE LET newResults == <<res>> IN
         IF Len(rs) = 0
         THEN [panic |-> TRUE, results |-> rs]
         ELSE [panic |-> FALSE, results |-> [rs EXCEPT ![1] = newResults]]

NoConfig ==
    [FailOnWarnings |-> FALSE, FromURL |-> EmptyStr, FromFile |-> EmptyStr,
     FromTopDir |-> EmptyStr, FromInnerPath |-> EmptyStr]

MainFresh ==
    /\ config = NoConfig
    /\ scanResults = <<>>
    /\ err = "none"
    /\ printed = <<>>
    /\ scanStarts = <<>>
    /\ runCompleted = FALSE
    /\ binRes = NoRes
    /\ binIgnored = FALSE
    /\ exitCode = -1

NoFlags ==
    /\ urlFlag = NoFlag
    /\ fileFlag = NoFlag
    /\ reqGiven = FALSE
    /\ topdir = EmptyStr
    /\ innerpath = EmptyStr

MainIdle ==
    /\ pc = "idle"
    /\ cmd = "version"
    /\ failOnWarnings = FALSE
    /\ NoFlags
    /\ MainFresh

NoTag == NewTag(<<>>)

NodeInputs ==
    \E c \in NodeConfigs :
        /\ NodeScan = c.root
        /\ cfgFilter = c.filter
        /\ Filter = cfgFilter

NodeFresh ==
    /\ ctxDone = FALSE
    /\ rpms = <<>>
    /\ ri = 1
    /\ tag = NoTag
    /\ files = <<>>
    /\ fi = 1
    /\ results = <<>>
    /\ fs = <<>>
    /\ dispatched = <<>>
    /\ queried = <<>>
    /\ rpmStarted = 0
    /\ scanCalls = 0
    /\ failed = <<>>
    /\ lateQueries = 0

InitNode ==
    /\ npc = "start"
    /\ NodeInputs
    /\ NodeFresh
    /\ MainIdle

\* runNodeScan up to the loop: the built-in filter entries and rpm -qa
StartNodeScan ==
    /\ npc = "start"
    /\ Filter' = AppendNodeFilter(Filter)
    /\ \E ok \in BOOLEAN, n \in 0..MaxRpms : rpms' = getAllRPMs(ctxDone, ok, n)
    /\ ri' = 1
    /\ npc' = "rpm"
    /\ UNCHANGED <<NodeScan, cfgFilter, ctxDone, tag, files, fi, results, fs,
                   dispatched, queried, rpmStarted, scanCalls, failed, lateQueries>>
    /\ UNCHANGED mainVars

\* one iteration of the outer loop up to the inner loop
QueryRPM ==
    /\ npc = "rpm"
    /\ ri <= Len(rpms)
    /\ \E ok \in BOOLEAN, listing \in FileLists :
         LET rpm == rpms[ri]
             t == NewTag(rpm)
             q == getFilesFromRPM(ctxDone, ok, listing)
         IN /\ tag' = t
            /\ queried' = Append(queried, rpm)
            /\ rpmStarted' = rpmStarted + q.started
            /\ lateQueries' = lateQueries + (IF ctxDone THEN 1 ELSE 0)
            /\ failed' = IF q.err THEN Append(failed, rpm) ELSE failed
            /\ IF q.err
               THEN /\ results' = Append(results, RpmErrResult(t))
                    /\ ri' = ri + 1
                    /\ UNCHANGED <<files, fi, npc>>
               ELSE IF q.files = <<>>
               THEN /\ ri' = ri + 1
                    /\ UNCHANGED <<files, fi, npc, results>>
               ELSE /\ files' = q.files
                    /\ fi' = 1
                    /\ npc' = "files"
                    /\ UNCHANGED <<ri, results>>
    /\ UNCHANGED <<NodeScan, Filter, cfgFilter, ctxDone, rpms, fs, dispatched, scanCalls>>
    /\ UNCHANGED mainVars

\* What the loop body can observe of a listed path: a file keeps its kind
\* during the scan, and a filtered path is not looked at (its kind is
\* immaterial).
ObservableKinds(path) ==
    IF path \in DOMAIN fs THEN {fs[path]}
    ELSE IF isPathFiltered(Filter, path) THEN {"dir"}
    ELSE Kinds

\* one iteration of the inner loop
NextFile ==
    /\ npc = "files"
    /\ fi <= Len(files)
    /\ LET path == files[fi] IN
       \E kind \in ObservableKinds(path) :
            LET filtered == isPathFiltered(Filter, path)
                r == ProcessFile(tag, path, kind, NodeScan, Filter)
            IN /\ fs' = IF filtered \/ path \in DOMAIN fs THEN fs ELSE (path :> kind) @@ fs
               /\ tag' = r.tag
               /\ results' = results \o r.out
               /\ scanCalls' = scanCalls + r.scans
               /\ dispatched' = IF filtered THEN dispatched ELSE Append(dispatched, path)
    /\ IF fi = Len(files)
       THEN /\ ri' = ri + 1
            /\ npc' = "rpm"
            /\ UNCHANGED fi
       ELSE /\ fi' = fi + 1
            /\ UNCHANGED <<ri, npc>>
    /\ UNCHANGED <<NodeScan, Filter, cfgFilter, ctxDone, rpms, files, queried, rpmStarted,
                   failed, lateQueries>>
    /\ UNCHANGED mainVars

\* the loop over the RPMs ends and runNodeScan returns runs
ReturnNodeScan ==
    /\ npc = "rpm"
    /\ ri > Len(rpms)
    /\ npc' = "done"
    /\ UNCHANGED <<NodeScan, Filter, cfgFilter, ctxDone, rpms, ri, tag, files, fi,
                   results, fs, dispatched, queried, rpmStarted, scanCalls, failed, lateQueries>>
    /\ UNCHANGED mainVars

\* the deadline of context.WithTimeout(context.Background(), timeLimit) passes
Timeout ==
    /\ npc \in {"start", "rpm", "files"}
    /\ ~ctxDone
    /\ ctxDone' = TRUE
    /\ UNCHANGED <<npc, NodeScan, Filter, cfgFilter, rpms, ri, tag, files, fi,
                   results, fs, dispatched, queried, rpmStarted, scanCalls, failed, lateQueries>>
    /\ UNCHANGED mainVars

NextNode == StartNodeScan \/ QueryRPM \/ NextFile \/ ReturnNodeScan \/ Timeout

SpecNode == InitNode /\ [][NextNode]_vars

\* ------------------------------------------------------------ main's steps
Init ==
    /\ pc = "execute"
    /\ cmd \in Cmds
    /\ failOnWarnings \in (IF cmd = "version" THEN {FALSE} ELSE BOOLEAN)
    /\ urlFlag \in (IF cmd = "payload" THEN FlagValues(<<"u">>) ELSE {NoFlag})
    /\ fileFlag \in (IF cmd = "payload" THEN FlagValues(<<"f">>) ELSE {NoFlag})
    /\ reqGiven \in (IF cmd \in {"node", "image", "java-image"} THEN BOOLEAN ELSE {FALSE})
    /\ topdir \in (IF cmd = "binary" THEN {EmptyStr, <<SEP, "t">>} ELSE {EmptyStr})
    /\ innerpath \in (IF cmd = "binary" THEN {EmptyStr, P_bin_a} ELSE {EmptyStr})
    /\ MainFresh
    /\ npc = "idle"
    /\ NodeScan = <<SEP>>
    /\ cfgFilter = <<>>
    /\ Filter = cfgFilter
    /\ NodeFresh

Fail(e) ==
    /\ err' = e
    /\ pc' = "returned"

\* versionCmd.RunE
RunVersion ==
    /\ pc = "execute"
    /\ cmd = "version"
    /\ pc' = "returned"
    /\ UNCHANGED <<cmd, failOnWarnings, urlFlag, fileFlag, reqGiven, topdir, innerpath,
                   config, scanResults, err, printed, scanStarts, runCompleted, binRes, binIgnored,
                   exitCode>>
    /\ UNCHANGED nodeVars

\* scanCmd.PersistentPreRunE: getConfig, config.Validate and the CPU profile
\* may fail
PersistentPreRunE ==
    /\ pc = "execute"
    /\ cmd \in ScanCmds
    /\ \E ok \in BOOLEAN :
         IF ok
         THEN /\ config' = [config EXCEPT !.FailOnWarnings = failOnWarnings]
              /\ pc' = "prerun"
              /\ UNCHANGED err
         ELSE /\ Fail("config")
              /\ UNCHANGED config
    /\ UNCHANGED <<cmd, failOnWarnings, urlFlag, fileFlag, reqGiven, topdir, innerpath,
                   scanResults, printed, scanStarts, runCompleted, binRes, binIgnored, exitCode>>
    /\ UNCHANGED nodeVars

\* the PreRunE of the subcommand: scan.ValidateApplicationDependencies
PreRunE ==
    /\ pc = "prerun"
    /\ \E ok \in BOOLEAN :
         IF ok THEN pc' = "validate" /\ UNCHANGED err
         ELSE Fail("dependencies")
    /\ UNCHANGED <<cmd, failOnWarnings, urlFlag, fileFlag, reqGiven, topdir, innerpath,
                   config, scanResults, printed, scanStarts, runCompleted, binRes, binIgnored,
                   exitCode>>
    /\ UNCHANGED nodeVars

\* cobra validates the required flags and the flag groups before RunE
ValidateFlags ==
    /\ pc = "validate"
    /\ LET r == RequiredFlagsError(cmd, reqGiven)
           g == FlagGroupsError(cmd, urlFlag, fileFlag)
       IN IF r # "none" THEN Fail(r)
          ELSE IF g # "none" THEN Fail(g)
          ELSE pc' = "run" /\ UNCHANGED err
    /\ UNCHANGED <<cmd, failOnWarnings, urlFlag, fileFlag, reqGiven, topdir, innerpath,
                   config, scanResults, printed, scanStarts, runCompleted, binRes, binIgnored,
                   exitCode>>
    /\ UNCHANGED nodeVars

\* scanPayload.RunE
RunPayload ==
    /\ pc = "run"
    /\ cmd = "payload"
    /\ LET c == [config EXCEPT !.FromURL = urlFlag.val, !.FromFile = fileFlag.val]
           e == PayloadSourceError(c.FromURL, c.FromFile)
       IN /\ config' = c
          /\ IF e # "none"
             THEN /\ Fail(e)
                  /\ UNCHANGED <<scanResults, scanStarts, runCompleted>>
             ELSE /\ scanStarts' = Append(scanStarts, [url |-> c.FromURL, file |-> c.FromFile])
                  /\ scanResults' \in RunSets
                  /\ runCompleted' = TRUE
                  /\ pc' = "postrun"
                  /\ UNCHANGED err
    /\ UNCHANGED <<cmd, failOnWarnings, urlFlag, fileFlag, reqGiven, topdir, innerpath,
                   printed, binRes, binIgnored, exitCode>>
    /\ UNCHANGED nodeVars

\* scanNode.RunE, scanImage.RunE and scanJavaImage.RunE
RunScan ==
    /\ pc = "run"
    /\ cmd \in {"node", "image", "java-image"}
    /\ scanResults' \in RunSets
    /\ runCompleted' = TRUE
    /\ pc' = "postrun"
    /\ UNCHANGED <<cmd, failOnWarnings, urlFlag, fileFlag, reqGiven, topdir, innerpath,
                   config, err, printed, scanStarts, binRes, binIgnored, exitCode>>
    /\ UNCHANGED nodeVars

\* gosyms.RunE
RunBinary ==
    /\ pc = "run"
    /\ cmd = "binary"
    /\ LET c == [config EXCEPT !.FromTopDir = topdir, !.FromInnerPath = innerpath] IN
       /\ config' = c
       /\ IF c.FromTopDir = EmptyStr \/ c.FromInnerPath = EmptyStr
          THEN /\ Fail("options required")
               /\ UNCHANGED <<scanResults, runCompleted, binRes, binIgnored, exitCode>>
          ELSE \E res \in BinaryResults, ignoredByRpm \in BOOLEAN :
                 LET r == BinaryRunE(scanResults, res, ignoredByRpm) IN
                 /\ binRes' = res
                 /\ binIgnored' = ignoredByRpm
                 /\ scanResults' = r.results
                 /\ IF r.panic
                    THEN /\ pc' = "exited"
                         /\ exitCode' = PanicExit
                         /\ UNCHANGED <<runCompleted, err>>
                    ELSE /\ pc' = "postrun"
                         /\ runCompleted' = TRUE
                         /\ UNCHANGED <<exitCode, err>>
    /\ UNCHANGED <<cmd, failOnWarnings, urlFlag, fileFlag, reqGiven, topdir, innerpath,
                   printed, scanStarts>>
    /\ UNCHANGED nodeVars

\* scanCmd.PersistentPostRunE
PostRun ==
    /\ pc = "postrun"
    /\ LET r == PersistentPostRunE(scanResults, config.FailOnWarnings) IN
       /\ printed' = printed \o r.printed
       /\ err' = r.err
    /\ pc' = "returned"
    /\ UNCHANGED <<cmd, failOnWarnings, urlFlag, fileFlag, reqGiven, topdir, innerpath,
                   config, scanResults, scanStarts, runCompleted, binRes, binIgnored, exitCode>>
    /\ UNCHANGED nodeVars

\* rootCmd.Execute returned: klog.Fatalf on an error, else main returns
MainExit ==
    /\ pc = "returned"
    /\ exitCode' = ExitStatus(err)
    /\ pc' = "exited"
    /\ UNCHANGED <<cmd, failOnWarnings, urlFlag, fileFlag, reqGiven, topdir, innerpath,
                   config, scanResults, err, printed, scanStarts, runCompleted, binRes, binIgnored>>
    /\ UNCHANGED nodeVars

Next ==
    \/ RunVersion \/ PersistentPreRunE \/ PreRunE \/ ValidateFlags
    \/ RunPayload \/ RunScan \/ RunBinary \/ PostRun \/ MainExit

Spec == Init /\ [][Next]_vars

\* ------------------------------------------------------------- properties
Range(f) == {f[i] : i \in DOMAIN f}

\* the results recorded for a file (the result of a failed rpm -ql has no path)
FileResults == SelectSeq(results, LAMBDA r : r.path # NoPath)

\* the paths under which a result for the listed path p can be recorded
ResultPathsOf(p) == {p, Join(NodeScan, p)}

ResultsFor(p) ==
    LET ps == ResultPathsOf(p) IN {j \in DOMAIN results : results[j].path \in ps}

Occurrences(p) == {i \in DOMAIN dispatched : dispatched[i] = p}

\* the ways a file can turn out for which the loop body appends a result
ReportedKinds == {"lstat_err", "mime_err", "binary_ok", "binary_fail"}

RECURSIVE ExpectedPaths(_)
\* the paths of the results the dispatched files d should have left, in order
ExpectedPaths(d) ==
    IF d = <<>> THEN <<>>
    ELSE LET p == Head(d)
             here == IF fs[p] \notin ReportedKinds THEN <<>>
                     ELSE IF fs[p] = "lstat_err" THEN <<p>>
                     ELSE <<Join(NodeScan, p)>>
         IN here \o ExpectedPaths(Tail(d))

Failing == IsFailed(scanResults) \/ (IsWarnings(scanResults) /\ failOnWarnings)

\* C1 (as stated): after a scan subcommand whose run step completed, the
\* report was printed and the process exits 0 when no failure survived and
\* no warning counts, and exits 1 otherwise.
C1_ExitOne ==
    (pc = "exited" /\ runCompleted) =>
        /\ printed = <<scanResults>>
        /\ (~Failing => exitCode = 0)
        /\ (Failing => exitCode = 1)

\* C1 (amended): after a scan subcommand whose run step completed, the
\* report was printed and the process exits 0 when no failure survived and
\* no warning counts, and exits with the status of klog.Fatalf, 255,
\* otherwise.
C1_ExitStatus ==
    (pc = "exited" /\ runCompleted) =>
        /\ printed = <<scanResults>>
        /\ (~Failing => exitCode = 0)
        /\ (Failing => exitCode = 255)

C1_Witness ==
    /\ pc = "exited"
    /\ runCompleted
    /\ ~IsFailed(scanResults)
    /\ IsWarnings(scanResults)
    /\ failOnWarnings
    /\ exitCode = 255

\* C2 (as stated): every listed path that passed the filter has exactly one
\* result, whatever the file turned out to be.
C2_ExactlyOne ==
    /\ Len(FileResults) = Len(dispatched)
    /\ \A p \in Range(dispatched) : Cardinality(ResultsFor(p)) = Cardinality(Occurrences(p))

\* C2 (amended): a listed path that passed the filter leaves exactly one
\* result when its lstat fails, its MIME detection fails or it is handed
\* to scanBinary, and none when it is a symlink, is missing under the root,
\* is a directory or has an ignored MIME type; the results are in the
\* order of the listing.
C2_AtMostOne ==
    [i \in DOMAIN FileResults |-> FileResults[i].path] = ExpectedPaths(dispatched)

C2_Witness ==
    /\ npc = "done"
    /\ \E i, j \in DOMAIN dispatched :
         /\ fs[dispatched[i]] \in {"dir", "ignored_mime", "stat_err"}
         /\ fs[dispatched[j]] \in {"binary_ok", "binary_fail"}
    /\ Len(FileResults) < Len(dispatched)

\* C3 (as stated): once the context is done no rpm -ql query is started and
\* no file is handed to scanBinary.
C3_NoNewWork ==
    [][ctxDone => /\ rpmStarted' = rpmStarted
                  /\ scanCalls' = scanCalls]_vars

\* C3 (amended): once the context is done no rpm -ql process is started:
\* the query of every remaining RPM fails at once and leaves one error
\* result tagged with the RPM, and the loop goes on to the next RPM.
C3_NoNewQuery ==
    [][ctxDone =>
         /\ rpmStarted' = rpmStarted
         /\ queried' # queried =>
              /\ results' = Append(results, NewScanResult(NewTag(rpms[ri]), NoPath, "rpm_ql"))
              /\ ri' = ri + 1
              /\ scanCalls' = scanCalls]_vars

C3_Witness ==
    /\ npc = "done"
    /\ ctxDone
    /\ lateQueries > 0
    /\ scanCalls > 0

\* C4: a failed rpm -ql query appends exactly one error result tagged with
\* that RPM, scans none of its files and goes on to the next RPM; the
\* results recorded before stay as they are, and every RPM of the rpm -qa
\* list has been queried when the scan returns.
C4_QueryFailureIsolated ==
    [][/\ failed' # failed =>
            /\ results' = Append(results, NewScanResult(NewTag(rpms[ri]), NoPath, "rpm_ql"))
            /\ scanCalls' = scanCalls
            /\ dispatched' = dispatched
            /\ ri' = ri + 1
            /\ npc' = "rpm"
       /\ IsPrefix(results, results')
       /\ npc' = "done" => queried' = rpms']_vars

C4_Witness ==
    /\ npc = "done"
    /\ Len(rpms) = 2
    /\ failed = <<rpms[1]>>
    /\ scanCalls > 0
    /\ Len(results) >= 2

\* C5 (as stated): no result has a path that matches the filter, the
\* configured entries and the four built-in ones.
C5_NoFilteredPath ==
    \A i \in DOMAIN results :
        ~isPathFiltered(cfgFilter \o BuiltinNodeFilter, results[i].path)

\* C5 (amended): no result is recorded for a listed path that matches the
\* filter, the configured entries and the four built-in ones: the filter is
\* tested on the path as rpm -ql lists it, and every result with a path is
\* the result of a listed path that does not match.
C5_NoFilteredListing ==
    LET unfiltered == {p \in Range(dispatched) :
                          ~isPathFiltered(cfgFilter \o BuiltinNodeFilter, p)}
        allowed == UNION {ResultPathsOf(p) : p \in unfiltered}
    IN \A i \in DOMAIN results :
           results[i].path # NoPath => results[i].path \in allowed

C5_Witness ==
    /\ npc = "done"
    /\ P_mod_m \in Range(files)
    /\ P_bin_a \in Range(files)
    /\ P_mod_m \notin Range(dispatched)
    /\ \E i \in DOMAIN results : results[i].path = Join(NodeScan, P_bin_a)

\* C6 (as stated): scan binary with --topdir and --innerpath, when the
\* result is neither skipped nor ignored by an RPM exception, completes its
\* run step and hands the reporter exactly that one result; the run fails
\* on a failing result and exits 0 on a successful one.
C6_BinaryVerdict ==
    (/\ pc = "exited"
     /\ cmd = "binary"
     /\ binRes # NoRes
     /\ binRes.status # "skipped"
     /\ ~(binRes.status # "success" /\ binRes.rpm # EmptyStr /\ binIgnored)) =>
        /\ runCompleted
        /\ printed = << <<<<binRes>>>> >>
        /\ (binRes.status = "success" => exitCode = 0)
        /\ (binRes.status = "failure" => exitCode # 0)

\* C7: scan payload with both --url and --file given, or with neither value
\* non-empty, returns an error, starts no payload scan and prints no
\* report; with exactly one of them given, non-empty, it starts the payload
\* scan once with that source.
C7_PayloadSource ==
    (pc = "exited" /\ cmd = "payload" /\ err \notin {"config", "dependencies"}) =>
        LET both == urlFlag.set /\ fileFlag.set
            neither == urlFlag.val = EmptyStr /\ fileFlag.val = EmptyStr
        IN /\ (both \/ neither) =>
                /\ err \in {"mutually exclusive", "option required"}
                /\ exitCode # 0
                /\ scanStarts = <<>>
                /\ printed = <<>>
           /\ ~(both \/ neither) =>
                scanStarts = <<[url |-> urlFlag.val, file |-> fileFlag.val]>>

C7_Witness ==
    /\ pc = "exited"
    /\ cmd = "payload"
    /\ urlFlag = [set |-> TRUE, val |-> <<"u">>]
    /\ fileFlag = [set |-> TRUE, val |-> <<"f">>]
    /\ err = "mutually exclusive"
    /\ scanStarts = <<>>

\* C8 (as stated): a listed symlink whose target does not exist leaves a
\* result with an error.
C8_DanglingReported ==
    \A i \in DOMAIN dispatched :
        fs[dispatched[i]] = "dangling" =>
            \E j \in ResultsFor(dispatched[i]) : results[j].err # "none"

\* C8 (amended): a listed symlink, whether its target exists or not, leaves
\* no result: the loop body skips it.
C8_SymlinkSkipped ==
    \A i \in DOMAIN dispatched :
        fs[dispatched[i]] \in {"symlink", "dangling"} => ResultsFor(dispatched[i]) = {}

C8_Witness ==
    /\ npc = "done"
    /\ \E i \in DOMAIN dispatched : fs[dispatched[i]] = "dangling"
    /\ Len(results) > 0

\* C9 (as stated): the returned results hold at most one result for a path.
C9_Deduplicated ==
    \A i, j \in DOMAIN results :
        (i # j /\ results[i].path # NoPath) => results[i].path # results[j].path

\* C9 (amended): a path is handled once for every time it is listed, so the
\* results hold at most as many results for a path as the listings name it.
C9_OncePerListing ==
    \A p \in ListedPaths : Cardinality(ResultsFor(p)) <= Cardinality(Occurrences(p))

C9_Witness ==
    /\ npc = "done"
    /\ Len(queried) = 2
    /\ \E p \in ListedPaths :
         /\ Cardinality(Occurrences(p)) = 2
         /\ Cardinality(ResultsFor(p)) = 2

\* C10 (as stated): the result of an error that happens before the path is
\* joined to the root, the failed rpm -ql and the failed lstat, is tagged
\* with the name of the RPM the loop is at.
C10_TaggedWithRpm ==
    [][(/\ Len(results') = Len(results) + 1
        /\ results'[Len(results')].err \in {"rpm_ql", "lstat"})
       => results'[Len(results')].tag = NewTag(rpms[ri])]_vars

====
